---- MODULE Spec2Model ----
(***************************************************************************)
(* Coaching-Backend: the admin and user route sets (routes/admin.js,       *)
(* routes/user.js) over the AdminUser, User and Batch collections.         *)
(*                                                                         *)
(* AuthSpec   registration and login, one atomic step per request          *)
(*            (requests arrive one at a time, "sequential" in the claims), *)
(*            from the empty store.                                        *)
(* BatchSpec  the batch routes, one atomic step per request, over a        *)
(*            credential store that registration has filled.               *)
(* ConcSpec   two requests in flight; a handler is split at the awaits     *)
(*            that separate its uniqueness pre-check from its write.       *)
(***************************************************************************)
EXTENDS Integers, Sequences, FiniteSets, TLC

(* ------------------------------ bounds -------------------------------- *)
MaxAnnouncements == 2   \* announcements over all batches
MaxIdsPerRequest == 2   \* length of a studentIds array in a request

(* --------------------------- input alphabets -------------------------- *)
AdminEmails == {"a@x.com", "b@x.com"}
UserEmails == {"s@x.com", "p@x.com", "t@x.com"}
BadEmail == "bad"
WellFormedEmails == AdminEmails \cup UserEmails \cup {"q@x.com"}
Names == {"", "A"}
RegisterPasswords == {"short", "secret1"}
LoginPasswords == {"", "secret1", "secret2"}
BatchCodes == {"", "cs1", "CS1", "Cs1", "m2"}
ClassLabels == {"", "10"}
Titles == {"", "t1", "t2"}
Contents == {"", "c1"}

(* ObjectIds: the k-th document of a collection gets the k-th name.        *)
AdminIdPool == <<"a1", "a2", "a3", "a4">>
UserIdPool == <<"u1", "u2", "u3", "u4">>
BatchIdPool == <<"b1", "b2", "b3", "b4">>
UnknownId == "f00"       \* a well-formed ObjectId no document carries
MalformedId == "abc"     \* a string that does not cast to an ObjectId
Undefined == "undefined" \* a missing field / JS undefined

Range(s) == {s[i] : i \in DOMAIN s}
ObjectIds == Range(AdminIdPool) \cup Range(UserIdPool) \cup Range(BatchIdPool) \cup {UnknownId}

VARIABLES
    admins,     \* AdminUser collection, in insertion order
    users,      \* User collection, in insertion order
    batches,    \* Batch collection, in insertion order
    clock,      \* server clock read by new Date()
    resp,       \* the response to the last request (with the request body on the credential routes)
    inflight    \* ConcSpec: the requests between their awaits

vars == <<admins, users, batches, clock, resp, inflight>>
store == <<admins, users, batches>>

(* ------------------------------ helpers ------------------------------- *)
NoDoc == [_id |-> "null"]
Found(d) == d # NoDoc

Min(S) == CHOOSE m \in S : \A n \in S : m <= n

\* Model.findOne(filter) on a filter at most one document matches: that document, or null
FindOne(coll, P(_)) ==
    LET hits == {i \in DOMAIN coll : P(coll[i])}
    IN  IF hits = {} THEN NoDoc ELSE coll[Min(hits)]

\* Model.find(filter): matching documents
Find(coll, P(_)) == {coll[i] : i \in {j \in DOMAIN coll : P(coll[j])}}

\* the ObjectId cast mongoose applies to an _id filter; a failed cast throws
CastFails(id) == id \notin ObjectIds

\* Model.findById(id) once the cast has succeeded
FindById(coll, id) == FindOne(coll, LAMBDA d : d._id = id)

\* String.prototype.toUpperCase on the batch-code alphabet
ToUpperCase(s) ==
    CASE s \in {"cs1", "CS1", "Cs1"} -> "CS1"
      [] s = "m2" -> "M2"
      [] OTHER -> s

\* z.string().email() / the login regex
IsEmail(e) == e \in WellFormedEmails

\* bcrypt.hash(plain, rounds): one-way hash under a salt generated for this call
Hash(plain, salt) == [plain |-> plain, salt |-> salt]
\* bcrypt.compare(plain, hash)
Compare(plain, hash) == hash.plain = plain

\* jwt.sign(claims, JWT_SECRET)
Sign(claims) == [kind |-> "jwt", sig |-> "valid", claims |-> claims]
\* jwt.verify(token, JWT_SECRET) succeeds
Verifies(bearer) == bearer.kind = "jwt" /\ bearer.sig = "valid"
\* decoded.<field>
Claim(bearer, f) == IF f \in DOMAIN bearer.claims THEN bearer.claims[f] ELSE Undefined

NoToken == [kind |-> "none"]
Respond(route, status, req, out) == [route |-> route, status |-> status, req |-> req, out |-> out]

Idle == [pc |-> "idle"]
Procs == {1, 2}

Init ==
    /\ admins = << >>
    /\ users = << >>
    /\ batches = << >>
    /\ clock = 0
    /\ resp = Respond("none", 0, NoToken, NoToken)
    /\ inflight = [p \in Procs |-> Idle]

(* ============================ routes/admin.js ========================== *)

\* registerSchema (admin)
AdminRegisterValid(name, email, password) ==
    /\ Len(name) >= 1
    /\ IsEmail(email)
    /\ Len(password) >= 6

\* the unique index on AdminUser.email
AdminEmailTaken(coll, email) == \E i \in DOMAIN coll : coll[i].email = email

\* AdminUser.create({...})
NewAdmin(coll, name, email, hashed) ==
    [_id |-> AdminIdPool[Len(coll) + 1], name |-> name, email |-> email,
     password |-> hashed, role |-> "admin", active |-> TRUE]

\* jwt.sign of the registration response
AdminRegisterToken(admin) ==
    Sign([adminId |-> admin._id, email |-> admin.email, role |-> "admin"])

\* AdminUser.findOne({ email })
ExistingAdmin(coll, email) == FindOne(coll, LAMBDA d : d.email = email)

\* POST /admin/register
AdminRegister(name, email, password, salt) ==
    LET req == [name |-> name, email |-> email, password |-> password]
        existingAdmin == ExistingAdmin(admins, email)
        admin == NewAdmin(admins, name, email, Hash(password, salt))
    IN  /\ IF ~AdminRegisterValid(name, email, password)
           THEN /\ resp' = Respond("adminRegister", 400, req, NoToken)
                /\ UNCHANGED admins
           ELSE IF Found(existingAdmin)
           THEN /\ resp' = Respond("adminRegister", 409, req, NoToken)
                /\ UNCHANGED admins
           ELSE IF AdminEmailTaken(admins, email)
           THEN \* create throws a duplicate-key error, which has no .errors: 500
                /\ resp' = Respond("adminRegister", 500, req, NoToken)
                /\ UNCHANGED admins
           ELSE /\ admins' = Append(admins, admin)
                /\ resp' = Respond("adminRegister", 201, req, AdminRegisterToken(admin))
        /\ UNCHANGED <<users, batches, clock, inflight>>

\* validateLogin
ValidateLogin(email, password) == IsEmail(email) /\ password # ""

\* jwt.sign of the admin login response: no role claim
AdminLoginToken(admin) == Sign([adminId |-> admin._id, email |-> admin.email])

\* AdminLogin answering a wrong password like an unknown address
AdminLoginNotFoundOnMismatch(email, password) ==
    LET req == [email |-> email, password |-> password]
        admin == ExistingAdmin(admins, email)
    IN  /\ resp' = IF ~ValidateLogin(email, password)
                   THEN Respond("adminLogin", 400, req, NoToken)
                   ELSE IF ~Found(admin) \/ ~Compare(password, admin.password)
                   THEN Respond("adminLogin", 404, req, NoToken)
                   ELSE Respond("adminLogin", 200, req, AdminLoginToken(admin))
        /\ UNCHANGED <<admins, users, batches, clock, inflight>>

\* POST /admin/login
AdminLogin(email, password) ==
    LET req == [email |-> email, password |-> password]
        admin == ExistingAdmin(admins, email)
    IN  /\ resp' = IF ~ValidateLogin(email, password)
                   THEN Respond("adminLogin", 400, req, NoToken)
                   ELSE IF ~Found(admin)
                   THEN Respond("adminLogin", 404, req, NoToken)
                   ELSE IF ~Compare(password, admin.password)
                   THEN Respond("adminLogin", 401, req, NoToken)
                   ELSE Respond("adminLogin", 200, req, AdminLoginToken(admin))
        /\ UNCHANGED <<admins, users, batches, clock, inflight>>

\* batchSchema (zod): every field a non-empty string
BatchValid(code, name, class, teacher_id) ==
    /\ Len(code) >= 1
    /\ Len(name) >= 1
    /\ Len(class) >= 1
    /\ Len(teacher_id) >= 1

\* BatchSchema.batch_code: unique: true
BatchCodeTaken(coll, code) == \E i \in DOMAIN coll : coll[i].batch_code = code

\* Batch.create({...}); BatchSchema.batch_code has uppercase: true
NewBatch(coll, code, name, class, teacher_id) ==
    [_id |-> BatchIdPool[Len(coll) + 1], batch_code |-> ToUpperCase(code),
     name |-> name, class |-> class, teacher_id |-> teacher_id,
     students |-> << >>, announcements |-> << >>]

\* ExistingBatch looking the code up as the client spelled it
ExistingBatchAsTyped(coll, code) == FindOne(coll, LAMBDA b : b.batch_code = code)

\* Batch.findOne({ batch_code: validatedData.batch_code.toUpperCase() })
ExistingBatch(coll, code) == FindOne(coll, LAMBDA b : b.batch_code = ToUpperCase(code))

\* POST /admin/batches
CreateBatch(code, name, class, teacher_id) ==
    LET admin == FindById(admins, teacher_id)
        existingBatch == ExistingBatch(batches, code)
        batch == NewBatch(batches, ToUpperCase(code), name, class, admin._id)
        Fail(status) == /\ resp' = Respond("createBatch", status, NoDoc, NoDoc)
                        /\ UNCHANGED batches
    IN  /\ IF ~BatchValid(code, name, class, teacher_id) THEN Fail(500)
           ELSE IF CastFails(teacher_id) THEN Fail(500)
           ELSE IF ~Found(admin) THEN Fail(404)
           ELSE IF Found(existingBatch) THEN Fail(409)
           ELSE IF BatchCodeTaken(batches, batch.batch_code) THEN Fail(500)
           ELSE /\ batches' = Append(batches, batch)
                /\ resp' = Respond("createBatch", 201, NoDoc, batch)
        /\ UNCHANGED <<admins, users, clock, inflight>>

\* index of the batch with this _id (0 when absent)
BatchIndex(id) ==
    LET hits == {i \in DOMAIN batches : batches[i]._id = id}
    IN  IF hits = {} THEN 0 ELSE Min(hits)

\* NewStudentIds without the filter on the ids already listed
NewStudentIdsUnfiltered(studentIds, batch) == studentIds

\* studentIds.filter(id => !batch.students.includes(id))
NewStudentIds(studentIds, batch) ==
    SelectSeq(studentIds, LAMBDA id : id \notin Range(batch.students))

\* AddStudents saving the new ids in place of the student list
AddStudentsReplacing(batchId, studentIds) ==
    LET batch == FindById(batches, batchId)
        students == Find(users, LAMBDA u : u._id \in Range(studentIds) /\ u.role = "student")
        saved == [batch EXCEPT !.students = NewStudentIds(studentIds, batch)]
        Fail(status) == /\ resp' = Respond("addStudents", status, NoDoc, NoDoc)
                        /\ UNCHANGED batches
    IN  /\ IF Len(studentIds) = 0 THEN Fail(400)
           ELSE IF CastFails(batchId) THEN Fail(500)
           ELSE IF ~Found(batch) THEN Fail(404)
           ELSE IF \E id \in Range(studentIds) : CastFails(id) THEN Fail(500)
           ELSE IF Cardinality(students) # Len(studentIds) THEN Fail(400)
           ELSE /\ batches' = [batches EXCEPT ![BatchIndex(batchId)] = saved]
                /\ resp' = Respond("addStudents", 200, NoDoc, saved)
        /\ UNCHANGED <<admins, users, clock, inflight>>

\* POST /admin/batches/:batchId/students
AddStudents(batchId, studentIds) ==
    LET batch == FindById(batches, batchId)
        students == Find(users, LAMBDA u : u._id \in Range(studentIds) /\ u.role = "student")
        saved == [batch EXCEPT !.students = batch.students \o NewStudentIds(studentIds, batch)]
        Fail(status) == /\ resp' = Respond("addStudents", status, NoDoc, NoDoc)
                        /\ UNCHANGED batches
    IN  /\ IF Len(studentIds) = 0 THEN Fail(400)
           ELSE IF CastFails(batchId) THEN Fail(500)
           ELSE IF ~Found(batch) THEN Fail(404)
           ELSE IF \E id \in Range(studentIds) : CastFails(id) THEN Fail(500)
           ELSE IF Cardinality(students) # Len(studentIds) THEN Fail(400)
           ELSE /\ batches' = [batches EXCEPT ![BatchIndex(batchId)] = saved]
                /\ resp' = Respond("addStudents", 200, NoDoc, saved)
        /\ UNCHANGED <<admins, users, clock, inflight>>

\* the announcements stored over all batches
TotalAnnouncements ==
    LET RECURSIVE Sum(_)
        Sum(i) == IF i = 0 THEN 0 ELSE Len(batches[i].announcements) + Sum(i - 1)
    IN  Sum(Len(batches))

\* authHeader.split(' ')[1] casts to an ObjectId: only a raw id does, a JWT never
BearerIsObjectId(bearer) == bearer.kind = "raw" /\ ~CastFails(bearer.raw)

\* the announcement sub-schema of BatchSchema: title and content are required
AnnouncementValid(title, content) == Len(title) >= 1 /\ Len(content) >= 1

\* CreateAnnouncement verifying the bearer token and taking the teacher from its claims
CreateAnnouncementVerified(batchId, bearer, title, content) ==
    LET req == [bearer |-> bearer]
        tokenTeacherId == Claim(bearer, "adminId")
        teacher == FindById(admins, tokenTeacherId)
        batch == FindById(batches, batchId)
        announcement == [title |-> title, content |-> content,
                         teacher_id |-> tokenTeacherId, createdAt |-> clock]
        saved == [batch EXCEPT !.announcements = <<announcement>> \o batch.announcements]
        Fail(status) == /\ resp' = Respond("createAnnouncement", status, req, NoDoc)
                        /\ UNCHANGED <<batches, clock>>
    IN  /\ IF ~Verifies(bearer) THEN Fail(401)
           ELSE IF ~Found(teacher) THEN Fail(401)
           ELSE IF CastFails(batchId) THEN Fail(500)
           ELSE IF ~Found(batch) THEN Fail(404)
           ELSE IF batch.teacher_id # tokenTeacherId THEN Fail(403)
           ELSE IF ~AnnouncementValid(title, content) THEN Fail(500)
           ELSE /\ TotalAnnouncements < MaxAnnouncements
                /\ batches' = [batches EXCEPT ![BatchIndex(batchId)] = saved]
                /\ clock' = clock + 1
                /\ resp' = Respond("createAnnouncement", 201, req, saved.announcements[1])
        /\ UNCHANGED <<admins, users, inflight>>

\* CreateAnnouncement without the comparison of the teacher with batch.teacher_id
CreateAnnouncementUnowned(batchId, bearer, title, content) ==
    LET req == [bearer |-> bearer]
        tokenTeacherId == bearer.raw
        teacher == FindById(admins, tokenTeacherId)
        batch == FindById(batches, batchId)
        announcement == [title |-> title, content |-> content,
                         teacher_id |-> tokenTeacherId, createdAt |-> clock]
        saved == [batch EXCEPT !.announcements = <<announcement>> \o batch.announcements]
        Fail(status) == /\ resp' = Respond("createAnnouncement", status, req, NoDoc)
                        /\ UNCHANGED <<batches, clock>>
    IN  /\ IF bearer.kind = "none" THEN Fail(401)
           ELSE IF ~BearerIsObjectId(bearer) THEN Fail(500)
           ELSE IF ~Found(teacher) THEN Fail(401)
           ELSE IF CastFails(batchId) THEN Fail(500)
           ELSE IF ~Found(batch) THEN Fail(404)
           ELSE IF ~AnnouncementValid(title, content) THEN Fail(500)
           ELSE /\ TotalAnnouncements < MaxAnnouncements
                /\ batches' = [batches EXCEPT ![BatchIndex(batchId)] = saved]
                /\ clock' = clock + 1
                /\ resp' = Respond("createAnnouncement", 201, req, saved.announcements[1])
        /\ UNCHANGED <<admins, users, inflight>>

\* CreateAnnouncement pushing the announcement to the back of the sequence
CreateAnnouncementAppended(batchId, bearer, title, content) ==
    LET req == [bearer |-> bearer]
        tokenTeacherId == bearer.raw
        teacher == FindById(admins, tokenTeacherId)
        batch == FindById(batches, batchId)
        announcement == [title |-> title, content |-> content,
                         teacher_id |-> tokenTeacherId, createdAt |-> clock]
        saved == [batch EXCEPT !.announcements = Append(batch.announcements, announcement)]
        Fail(status) == /\ resp' = Respond("createAnnouncement", status, req, NoDoc)
                        /\ UNCHANGED <<batches, clock>>
    IN  /\ IF bearer.kind = "none" THEN Fail(401)
           ELSE IF ~BearerIsObjectId(bearer) THEN Fail(500)
           ELSE IF ~Found(teacher) THEN Fail(401)
           ELSE IF CastFails(batchId) THEN Fail(500)
           ELSE IF ~Found(batch) THEN Fail(404)
           ELSE IF batch.teacher_id # tokenTeacherId THEN Fail(403)
           ELSE IF ~AnnouncementValid(title, content) THEN Fail(500)
           ELSE /\ TotalAnnouncements < MaxAnnouncements
                /\ batches' = [batches EXCEPT ![BatchIndex(batchId)] = saved]
                /\ clock' = clock + 1
                /\ resp' = Respond("createAnnouncement", 201, req, saved.announcements[1])
        /\ UNCHANGED <<admins, users, inflight>>

\* POST /admin/batches/:batchId/announcements
CreateAnnouncement(batchId, bearer, title, content) ==
    LET req == [bearer |-> bearer]
        tokenTeacherId == bearer.raw
        teacher == FindById(admins, tokenTeacherId)
        batch == FindById(batches, batchId)
        announcement == [title |-> title, content |-> content,
                         teacher_id |-> tokenTeacherId, createdAt |-> clock]
        saved == [batch EXCEPT !.announcements = <<announcement>> \o batch.announcements]
        Fail(status) == /\ resp' = Respond("createAnnouncement", status, req, NoDoc)
                        /\ UNCHANGED <<batches, clock>>
    IN  /\ IF bearer.kind = "none" THEN Fail(401)
           ELSE IF ~BearerIsObjectId(bearer) THEN Fail(500)
           ELSE IF ~Found(teacher) THEN Fail(401)
           ELSE IF CastFails(batchId) THEN Fail(500)
           ELSE IF ~Found(batch) THEN Fail(404)
           ELSE IF batch.teacher_id # tokenTeacherId THEN Fail(403)
           ELSE IF ~AnnouncementValid(title, content) THEN Fail(500)
           ELSE /\ TotalAnnouncements < MaxAnnouncements
                /\ batches' = [batches EXCEPT ![BatchIndex(batchId)] = saved]
                /\ clock' = clock + 1
                /\ resp' = Respond("createAnnouncement", 201, req, saved.announcements[1])
        /\ UNCHANGED <<admins, users, inflight>>

(* ============================ routes/user.js =========================== *)

\* registerSchema (user)
UserRegisterValid(name, email, parentEmail, password) ==
    /\ Len(name) >= 1
    /\ IsEmail(email)
    /\ IsEmail(parentEmail)
    /\ Len(password) >= 6

\* the unique index on User.email
UserEmailTaken(coll, email) == \E i \in DOMAIN coll : coll[i].email = email

\* User.create({... role: 'student'})
NewStudent(coll, name, email, parentEmail, hashed) ==
    [_id |-> UserIdPool[Len(coll) + 1], name |-> name, email |-> email,
     parentEmail |-> parentEmail, password |-> hashed, role |-> "student"]

\* User.create({... role: 'parent'})
NewParent(coll, name, parentEmail, hashed) ==
    [_id |-> UserIdPool[Len(coll) + 1], name |-> "Parent of " \o name, email |-> parentEmail,
     parentEmail |-> Undefined, password |-> hashed, role |-> "parent"]

\* jwt.sign({ userId, email, role })
UserToken(user) == Sign([userId |-> user._id, email |-> user.email, role |-> user.role])

\* ExistingUser looking up the student's address only
ExistingUserByEmailOnly(coll, email, parentEmail) == FindOne(coll, LAMBDA u : u.email = email)

\* User.findOne({ $or: [{ email }, { email: parentEmail }] })
ExistingUser(coll, email, parentEmail) ==
    FindOne(coll, LAMBDA u : u.email = email \/ u.email = parentEmail)

\* POST /user/register
UserRegister(name, email, parentEmail, password, salt) ==
    LET req == [name |-> name, email |-> email, parentEmail |-> parentEmail, password |-> password]
        existingUser == ExistingUser(users, email, parentEmail)
        hashedPassword == Hash(password, salt)
        user == NewStudent(users, name, email, parentEmail, hashedPassword)
        withStudent == Append(users, user)
        parent == NewParent(withStudent, name, parentEmail, hashedPassword)
    IN  /\ IF ~UserRegisterValid(name, email, parentEmail, password)
           THEN /\ resp' = Respond("userRegister", 400, req, NoToken)
                /\ UNCHANGED users
           ELSE IF Found(existingUser)
           THEN /\ resp' = Respond("userRegister", 409, req, NoToken)
                /\ UNCHANGED users
           ELSE IF UserEmailTaken(users, email)
           THEN \* the first create throws a duplicate-key error; the catch answers 400
                /\ resp' = Respond("userRegister", 400, req, NoToken)
                /\ UNCHANGED users
           ELSE IF UserEmailTaken(withStudent, parentEmail)
           THEN \* the second create throws; the student document stays
                /\ users' = withStudent
                /\ resp' = Respond("userRegister", 400, req, NoToken)
           ELSE /\ users' = Append(withStudent, parent)
                /\ resp' = Respond("userRegister", 201, req, UserToken(user))
        /\ UNCHANGED <<admins, batches, clock, inflight>>

\* loginSchema (zod)
LoginValid(email, password) == IsEmail(email) /\ Len(password) >= 1

\* the documents User.findOne({ $or: [{ email }, { parentEmail: email }] }) can return:
\* a student is matched by its parent's address too, and the filter fixes no order
LegacyMatches(coll, email) == Find(coll, LAMBDA u : u.email = email \/ u.parentEmail = email)

\* POST /user/login (legacy)
UserLogin(email, password) ==
    LET req == [email |-> email, password |-> password]
        matches == LegacyMatches(users, email)
    IN  /\ IF ~LoginValid(email, password)
           THEN resp' = Respond("userLogin", 400, req, NoToken)
           ELSE IF matches = {}
           THEN resp' = Respond("userLogin", 404, req, NoToken)
           ELSE \E user \in matches :
                   resp' = IF ~Compare(password, user.password)
                           THEN Respond("userLogin", 401, req, NoToken)
                           ELSE Respond("userLogin", 200, req, UserToken(user))
        /\ UNCHANGED <<admins, users, batches, clock, inflight>>

\* User.findOne({ email, role })
AccountWithRole(coll, email, role) == FindOne(coll, LAMBDA u : u.email = email /\ u.role = role)

\* POST /user/login/student and POST /user/login/parent: the same steps under one role
RoleLogin(route, role, email, password) ==
    LET req == [email |-> email, password |-> password]
        account == AccountWithRole(users, email, role)
    IN  /\ resp' = IF email = "" \/ password = ""
                   THEN Respond(route, 400, req, NoToken)
                   ELSE IF ~Found(account)
                   THEN Respond(route, 404, req, NoToken)
                   ELSE IF ~Compare(password, account.password)
                   THEN Respond(route, 401, req, NoToken)
                   ELSE Respond(route, 200, req,
                                Sign([userId |-> account._id, email |-> account.email, role |-> role]))
        /\ UNCHANGED <<admins, users, batches, clock, inflight>>

\* POST /user/login/student
StudentLogin(email, password) == RoleLogin("studentLogin", "student", email, password)
\* POST /user/login/parent
ParentLogin(email, password) == RoleLogin("parentLogin", "parent", email, password)

\* JoinBatch without the already-enrolled check
JoinBatchNoEnrolledCheck(code, bearer) ==
    LET req == [batch_code |-> code]
        student == FindById(users, Claim(bearer, "userId"))
        batch == ExistingBatch(batches, code)
        saved == [batch EXCEPT !.students = Append(batch.students, student._id)]
        Fail(status) == /\ resp' = Respond("joinBatch", status, req, NoDoc)
                        /\ UNCHANGED batches
    IN  /\ IF code = "" \/ bearer.kind = "none" THEN Fail(400)
           ELSE IF ~Verifies(bearer) THEN Fail(401)
           ELSE IF ~Found(student) \/ student.role # "student" THEN Fail(403)
           ELSE IF ~Found(batch) THEN Fail(404)
           ELSE /\ batches' = [batches EXCEPT ![BatchIndex(batch._id)] = saved]
                /\ resp' = Respond("joinBatch", 200, req,
                                   [code |-> batch.batch_code, name |-> batch.name, class |-> batch.class])
        /\ UNCHANGED <<admins, users, clock, inflight>>

\* POST /user/join-batch
JoinBatch(code, bearer) ==
    LET req == [batch_code |-> code]
        student == FindById(users, Claim(bearer, "userId"))
        batch == ExistingBatch(batches, code)
        saved == [batch EXCEPT !.students = Append(batch.students, student._id)]
        Fail(status) == /\ resp' = Respond("joinBatch", status, req, NoDoc)
                        /\ UNCHANGED batches
    IN  /\ IF code = "" \/ bearer.kind = "none" THEN Fail(400)
           ELSE IF ~Verifies(bearer) THEN Fail(401)
           ELSE IF ~Found(student) \/ student.role # "student" THEN Fail(403)
           ELSE IF ~Found(batch) THEN Fail(404)
           ELSE IF student._id \in Range(batch.students) THEN Fail(409)
           ELSE /\ batches' = [batches EXCEPT ![BatchIndex(batch._id)] = saved]
                /\ resp' = Respond("joinBatch", 200, req,
                                   [code |-> batch.batch_code, name |-> batch.name, class |-> batch.class])
        /\ UNCHANGED <<admins, users, clock, inflight>>

(* ----------------------------- the requests ---------------------------- *)
\* the salt bcrypt generates: one that no hash stored in coll carries
FreshSalt(coll) == Len(coll) + 1

IdsOf(coll) == {coll[i]._id : i \in DOMAIN coll}
TeacherIdInputs == IdsOf(admins) \cup {"", UnknownId, MalformedId}
BatchIdInputs == IdsOf(batches) \cup {UnknownId, MalformedId}
StudentIdInputs == IdsOf(users) \cup {UnknownId, MalformedId}
StudentIdLists == UNION {[1..n -> StudentIdInputs] : n \in 0..MaxIdsPerRequest}

\* a token with a signature that does not verify
Forged(token) == [token EXCEPT !.sig = "forged"]
\* the bearer values a client can send: none, a raw string, a token a login issued, a forgery
RawBearers(ids) == {[kind |-> "raw", raw |-> id] : id \in ids}
UserTokens == {UserToken(users[i]) : i \in DOMAIN users}
AdminTokens == {AdminLoginToken(admins[i]) : i \in DOMAIN admins}
AnnouncementBearers ==
    {NoToken} \cup RawBearers(IdsOf(admins) \cup {UnknownId, MalformedId}) \cup AdminTokens
UserBearers ==
    {NoToken} \cup UserTokens \cup {Forged(t) : t \in UserTokens} \cup RawBearers({MalformedId})

(* ------------------------------- AuthSpec ------------------------------ *)
AuthNext ==
    \/ \E n \in Names, e \in AdminEmails \cup {BadEmail}, p \in RegisterPasswords :
          AdminRegister(n, e, p, FreshSalt(admins))
    \/ \E e \in AdminEmails \cup {BadEmail}, p \in LoginPasswords : AdminLogin(e, p)
    \/ \E n \in Names, e \in UserEmails \cup {BadEmail}, pe \in UserEmails \cup {BadEmail},
          p \in RegisterPasswords : UserRegister(n, e, pe, p, FreshSalt(users))
    \/ \E e \in UserEmails \cup {BadEmail}, p \in LoginPasswords : UserLogin(e, p)
    \/ \E e \in UserEmails \cup {BadEmail, ""}, p \in LoginPasswords : StudentLogin(e, p)
    \/ \E e \in UserEmails \cup {BadEmail, ""}, p \in LoginPasswords : ParentLogin(e, p)

AuthSpec == Init /\ [][AuthNext]_vars

(* ------------------------- EnrolSpec, AnnounceSpec --------------------- *)
\* the AdminUser collection after a@x.com and b@x.com have registered
SeedAdmins ==
    LET first == <<NewAdmin(<< >>, "A", "a@x.com", Hash("secret1", 1))>>
    IN  Append(first, NewAdmin(first, "A", "b@x.com", Hash("secret1", 2)))

\* the User collection after (s@x.com, p@x.com) and (t@x.com, q@x.com) have registered
SeedUsers ==
    LET Pair(coll, email, parentEmail) ==
            LET hashed == Hash("secret1", FreshSalt(coll))
                withStudent == Append(coll, NewStudent(coll, "A", email, parentEmail, hashed))
            IN  Append(withStudent, NewParent(withStudent, "A", parentEmail, hashed))
    IN  Pair(Pair(<< >>, "s@x.com", "p@x.com"), "t@x.com", "q@x.com")

BatchInit ==
    /\ admins = SeedAdmins
    /\ users = SeedUsers
    /\ batches = << >>
    /\ clock = 0
    /\ resp = Respond("none", 0, NoToken, NoToken)
    /\ inflight = [p \in Procs |-> Idle]

\* enrolment: the routes that write Batch documents and their student lists
EnrolNext ==
    \/ \E c \in BatchCodes, n \in Names, k \in ClassLabels, t \in TeacherIdInputs :
          CreateBatch(c, n, k, t)
    \/ \E b \in BatchIdInputs, ids \in StudentIdLists : AddStudents(b, ids)
    \/ \E c \in BatchCodes, h \in UserBearers : JoinBatch(c, h)

EnrolSpec == BatchInit /\ [][EnrolNext]_vars

\* announcements: the routes that write Batch documents and their announcements
AnnounceNext ==
    \/ \E c \in BatchCodes, n \in Names, k \in ClassLabels, t \in TeacherIdInputs :
          CreateBatch(c, n, k, t)
    \/ \E b \in BatchIdInputs, h \in AnnouncementBearers, t \in Titles, c \in Contents :
          CreateAnnouncement(b, h, t, c)

AnnounceSpec == BatchInit /\ [][AnnounceNext]_vars

(* ------------------------------- ConcSpec ------------------------------ *)
(* Two requests in flight. A handler runs up to the await of its write in  *)
(* one step (validation and the findOne pre-check) and performs the write  *)
(* in a later step, so the other request can run in between.               *)
Park(p, state) == inflight' = [inflight EXCEPT ![p] = state]

\* POST /admin/register up to AdminUser.create
BeginAdminRegister(p, name, email, password) ==
    /\ inflight[p] = Idle
    /\ IF ~AdminRegisterValid(name, email, password)
       THEN resp' = Respond("adminRegister", 400, NoDoc, NoToken) /\ UNCHANGED inflight
       ELSE IF Found(ExistingAdmin(admins, email))
       THEN resp' = Respond("adminRegister", 409, NoDoc, NoToken) /\ UNCHANGED inflight
       ELSE /\ Park(p, [pc |-> "adminCreate", name |-> name, email |-> email,
                        password |-> Hash(password, p)])
            /\ UNCHANGED resp
    /\ UNCHANGED <<admins, users, batches, clock>>

\* AdminUser.create and the response, or the catch block
FinishAdminRegister(p) ==
    LET r == inflight[p]
        admin == NewAdmin(admins, r.name, r.email, r.password)
    IN  /\ r.pc = "adminCreate"
        /\ IF AdminEmailTaken(admins, r.email)
           THEN resp' = Respond("adminRegister", 500, NoDoc, NoToken) /\ UNCHANGED admins
           ELSE /\ admins' = Append(admins, admin)
                /\ resp' = Respond("adminRegister", 201, NoDoc, AdminRegisterToken(admin))
        /\ Park(p, Idle)
        /\ UNCHANGED <<users, batches, clock>>

\* POST /user/register up to the first User.create
BeginUserRegister(p, name, email, parentEmail, password) ==
    /\ inflight[p] = Idle
    /\ IF ~UserRegisterValid(name, email, parentEmail, password)
       THEN resp' = Respond("userRegister", 400, NoDoc, NoToken) /\ UNCHANGED inflight
       ELSE IF Found(ExistingUser(users, email, parentEmail))
       THEN resp' = Respond("userRegister", 409, NoDoc, NoToken) /\ UNCHANGED inflight
       ELSE /\ Park(p, [pc |-> "studentCreate", name |-> name, email |-> email,
                        parentEmail |-> parentEmail, password |-> Hash(password, p)])
            /\ UNCHANGED resp
    /\ UNCHANGED <<admins, users, batches, clock>>

\* User.create of the student account, or the catch block
CreateStudentAccount(p) ==
    LET r == inflight[p]
        user == NewStudent(users, r.name, r.email, r.parentEmail, r.password)
    IN  /\ r.pc = "studentCreate"
        /\ IF UserEmailTaken(users, r.email)
           THEN /\ resp' = Respond("userRegister", 400, NoDoc, NoToken)
                /\ Park(p, Idle)
                /\ UNCHANGED users
           ELSE /\ users' = Append(users, user)
                /\ Park(p, [r EXCEPT !.pc = "parentCreate"] @@ [user |-> user])
                /\ UNCHANGED resp
        /\ UNCHANGED <<admins, batches, clock>>

\* User.create of the parent account and the response, or the catch block
CreateParentAccount(p) ==
    LET r == inflight[p]
        parent == NewParent(users, r.name, r.parentEmail, r.password)
    IN  /\ r.pc = "parentCreate"
        /\ IF UserEmailTaken(users, r.parentEmail)
           THEN resp' = Respond("userRegister", 400, NoDoc, NoToken) /\ UNCHANGED users
           ELSE /\ users' = Append(users, parent)
                /\ resp' = Respond("userRegister", 201, NoDoc, UserToken(r.user))
        /\ Park(p, Idle)
        /\ UNCHANGED <<admins, batches, clock>>

\* POST /admin/batches up to Batch.create
BeginCreateBatch(p, code, name, class, teacher_id) ==
    LET admin == FindById(admins, teacher_id)
        Fail(status) == resp' = Respond("createBatch", status, NoDoc, NoDoc) /\ UNCHANGED inflight
    IN  /\ inflight[p] = Idle
        /\ IF ~BatchValid(code, name, class, teacher_id) THEN Fail(500)
           ELSE IF CastFails(teacher_id) THEN Fail(500)
           ELSE IF ~Found(admin) THEN Fail(404)
           ELSE IF Found(ExistingBatch(batches, code)) THEN Fail(409)
           ELSE /\ Park(p, [pc |-> "batchCreate", batch_code |-> ToUpperCase(code),
                            name |-> name, class |-> class, teacher_id |-> admin._id])
                /\ UNCHANGED resp
        /\ UNCHANGED <<admins, users, batches, clock>>

\* Batch.create and the response, or the catch block
FinishCreateBatch(p) ==
    LET r == inflight[p]
        batch == NewBatch(batches, r.batch_code, r.name, r.class, r.teacher_id)
    IN  /\ r.pc = "batchCreate"
        /\ IF BatchCodeTaken(batches, batch.batch_code)
           THEN resp' = Respond("createBatch", 500, NoDoc, NoDoc) /\ UNCHANGED batches
           ELSE /\ batches' = Append(batches, batch)
                /\ resp' = Respond("createBatch", 201, NoDoc, batch)
        /\ Park(p, Idle)
        /\ UNCHANGED <<admins, users, clock>>

ConcUserEmails == {"s@x.com", "p@x.com"}
ConcCodes == {"cs1", "CS1", "m2"}

\* the races on AdminUser.email and User.email, from the empty store
RegisterRaceNext ==
    \/ \E p \in Procs, n \in Names, e \in AdminEmails, w \in RegisterPasswords :
          BeginAdminRegister(p, n, e, w)
    \/ \E p \in Procs : FinishAdminRegister(p)
    \/ \E p \in Procs, n \in Names, e \in ConcUserEmails, pe \in ConcUserEmails,
          w \in RegisterPasswords : BeginUserRegister(p, n, e, pe, w)
    \/ \E p \in Procs : CreateStudentAccount(p)
    \/ \E p \in Procs : CreateParentAccount(p)

RegisterRaceSpec == Init /\ [][RegisterRaceNext]_vars

\* the race on Batch.batch_code, over the filled credential store
ConcNext ==
    \/ \E p \in Procs, c \in ConcCodes, n \in Names, k \in ClassLabels, t \in TeacherIdInputs :
          BeginCreateBatch(p, c, n, k, t)
    \/ \E p \in Procs : FinishCreateBatch(p)

ConcSpec == BatchInit /\ [][ConcNext]_vars

(* ======================= routes/user.js: queries ======================= *)
\* sort({ createdAt: -1 }) on documents stored in creation order
Reverse(s) == [i \in 1..Len(s) |-> s[Len(s) + 1 - i]]

\* Batch.find({ students: id }).sort({ createdAt: -1 })
BatchesOf(id) == Reverse(SelectSeq(batches, LAMBDA b : id \in Range(b.students)))

\* GET /user/my-batches?student_id=...
MyBatches(student_id, bearer) ==
    LET req == [bearer |-> bearer, caller |-> student_id]
    IN  /\ IF student_id \in {Undefined, ""}
           THEN resp' = Respond("myBatches", 400, req, << >>)
           ELSE IF CastFails(student_id)
           THEN resp' = Respond("myBatches", 500, req, << >>)
           ELSE resp' = Respond("myBatches", 200, req, BatchesOf(student_id))
        /\ UNCHANGED <<admins, users, batches, clock, inflight>>

\* GET /user/parent/student-batches
ParentStudentBatches(bearer) ==
    LET req == [bearer |-> bearer, caller |-> Claim(bearer, "userId")]
        parent == FindById(users, Claim(bearer, "userId"))
        students == SelectSeq(users, LAMBDA u : u.parentEmail = parent.email)
        data == [i \in DOMAIN students |->
                    [student |-> students[i]._id, batches |-> BatchesOf(students[i]._id)]]
    IN  /\ IF bearer.kind = "none"
           THEN resp' = Respond("parentStudentBatches", 401, [bearer |-> bearer, caller |-> Undefined], << >>)
           ELSE IF ~Verifies(bearer)
           THEN resp' = Respond("parentStudentBatches", 500, [bearer |-> bearer, caller |-> Undefined], << >>)
           ELSE IF ~Found(parent) \/ parent.role # "parent"
           THEN resp' = Respond("parentStudentBatches", 403, req, << >>)
           ELSE resp' = Respond("parentStudentBatches", 200, req, data)
        /\ UNCHANGED <<admins, users, batches, clock, inflight>>

\* GET /user/student/batches/:batchId?userId=...
StudentBatch(batchId, userId, bearer) ==
    LET req == [bearer |-> bearer, caller |-> userId]
        batch == FindById(batches, batchId)
        Answer(status, out) == resp' = Respond("studentBatch", status, req, out)
    IN  /\ IF bearer.kind = "none" THEN Answer(401, << >>)
           ELSE IF ~Verifies(bearer) THEN Answer(401, << >>)
           ELSE IF Claim(bearer, "userId") # userId THEN Answer(403, << >>)
           ELSE IF CastFails(batchId) THEN Answer(401, << >>)
           ELSE IF ~Found(batch) THEN Answer(404, << >>)
           ELSE IF userId \notin Range(batch.students) THEN Answer(403, << >>)
           ELSE Answer(200, <<batch>>)
        /\ UNCHANGED <<admins, users, batches, clock, inflight>>

\* GET /user/parent/batches/:batchId?parentId=...&studentId=...
ParentBatch(batchId, parentId, studentId, bearer) ==
    LET req == [bearer |-> bearer, caller |-> parentId]
        parent == FindById(users, parentId)
        student == FindById(users, studentId)
        batch == FindById(batches, batchId)
        Answer(status, out) == resp' = Respond("parentBatch", status, req, out)
    IN  /\ IF bearer.kind = "none" THEN Answer(401, << >>)
           ELSE IF CastFails(parentId) \/ CastFails(studentId) THEN Answer(500, << >>)
           ELSE IF ~Found(parent) \/ parent.role # "parent" THEN Answer(403, << >>)
           ELSE IF ~Found(student) \/ student.parentEmail # parent.email THEN Answer(403, << >>)
           ELSE IF CastFails(batchId) THEN Answer(500, << >>)
           ELSE IF ~Found(batch) THEN Answer(404, << >>)
           ELSE IF studentId \notin Range(batch.students) THEN Answer(403, << >>)
           ELSE Answer(200, <<batch>>)
        /\ UNCHANGED <<admins, users, batches, clock, inflight>>

\* the identifiers a query string can carry
QueryIds == IdsOf(users) \cup {Undefined, UnknownId, MalformedId}
\* the bearer values sent to the query routes
QueryBearers == {NoToken} \cup {UserToken(users[i]) : i \in {1, 2}} \cup {Forged(UserToken(users[2]))}
\* the batch codes created under QuerySpec
QueryCodes == {"cs1", "m2"}

\* the query routes over batches that students have joined
QueryNext ==
    \/ \E c \in QueryCodes : CreateBatch(c, "A", "10", "a1")
    \/ \E c \in QueryCodes, h \in UserTokens : JoinBatch(c, h)
    \/ \E id \in QueryIds, h \in QueryBearers : MyBatches(id, h)
    \/ \E h \in QueryBearers : ParentStudentBatches(h)
    \/ \E b \in BatchIdInputs, id \in QueryIds, h \in QueryBearers : StudentBatch(b, id, h)
    \/ \E b \in BatchIdInputs, pid \in QueryIds, sid \in QueryIds, h \in QueryBearers :
          ParentBatch(b, pid, sid, h)

QuerySpec == BatchInit /\ [][QueryNext]_vars

(* ======================= routes/user.js: profile ======================= *)
\* profileSchema: every field optional, email an address, newPassword of six characters or more
ProfileValid(email, newPassword) ==
    /\ email = Undefined \/ IsEmail(email)
    /\ newPassword = Undefined \/ newPassword \in {"secret1", "secret2"}

\* req.user when the handler runs: routes/user.js requires middleware/auth but mounts it
\* on no route, and index.js mounts the router behind express.json and cors only
ReqUser(bearer) == Undefined

\* a field of the body that is present and not empty
Truthy(field) == field \notin {Undefined, ""}

\* PUT /user/profile
UpdateProfile(bearer, name, email, currentPassword, newPassword) ==
    LET req == [bearer |-> bearer, name |-> name, email |-> email,
                currentPassword |-> currentPassword, newPassword |-> newPassword]
        reqUser == ReqUser(bearer)
        user == FindById(users, reqUser.userId)
        changesPassword == Truthy(currentPassword) /\ Truthy(newPassword)
        rehashed == IF changesPassword
                    THEN [user EXCEPT !.password = Hash(newPassword, FreshSalt(users))]
                    ELSE user
        renamed == IF Truthy(name) THEN [rehashed EXCEPT !.name = name] ELSE rehashed
        saved == IF Truthy(email) THEN [renamed EXCEPT !.email = email] ELSE renamed
        existingUser == FindOne(users, LAMBDA u : u.email = email /\ u._id # user._id)
        index == Min({i \in DOMAIN users : users[i]._id = user._id})
        Fail(status) == resp' = Respond("updateProfile", status, req, NoDoc) /\ UNCHANGED users
    IN  /\ IF ~ProfileValid(email, newPassword) THEN Fail(400)
           ELSE IF reqUser = Undefined THEN Fail(400)
           ELSE IF ~Found(user) THEN Fail(404)
           ELSE IF changesPassword /\ ~Compare(currentPassword, user.password) THEN Fail(401)
           ELSE IF Truthy(email) /\ Found(existingUser) THEN Fail(409)
           ELSE /\ users' = [users EXCEPT ![index] = saved]
                /\ resp' = Respond("updateProfile", 200, req, NoDoc)
        /\ UNCHANGED <<admins, batches, clock, inflight>>

\* the optional fields of a profile body
ProfileNames == {Undefined, "B"}
ProfileEmails == {Undefined, BadEmail, "s@x.com", "q@x.com"}
ProfilePasswords == {Undefined, "secret1", "short"}
ProfileBearers == {NoToken} \cup UserTokens

\* registration followed by profile updates
ProfileNext ==
    \/ \E e \in UserEmails, pe \in UserEmails :
          UserRegister("A", e, pe, "secret1", FreshSalt(users))
    \/ \E h \in ProfileBearers, n \in ProfileNames, e \in ProfileEmails,
          cur \in ProfilePasswords, new \in ProfilePasswords :
          UpdateProfile(h, n, e, cur, new)

ProfileSpec == Init /\ [][ProfileNext]_vars

(* ===================== routes/admin.js: read routes ==================== *)
\* .populate(path, 'name email') of a reference to an AdminUser: the referenced
\* document's _id, name and email, or null when no document has the id
PopulateAdmin(id) ==
    LET admin == FindById(admins, id)
    IN  IF Found(admin) THEN [_id |-> admin._id, name |-> admin.name, email |-> admin.email]
        ELSE NoDoc

\* .populate('announcements.teacher_id', 'name email')
PopulateAnnouncements(list) ==
    [k \in DOMAIN list |-> [list[k] EXCEPT !.teacher_id = PopulateAdmin(list[k].teacher_id)]]

\* GET /admin/batches/:batchId/announcements
GetAnnouncements(batchId) ==
    LET req == [batchId |-> batchId]
        batch == FindById(batches, batchId)
    IN  /\ IF CastFails(batchId)
           THEN resp' = Respond("getAnnouncements", 500, req, << >>)
           ELSE IF ~Found(batch)
           THEN resp' = Respond("getAnnouncements", 404, req, << >>)
           ELSE resp' = Respond("getAnnouncements", 200, req,
                                PopulateAnnouncements(batch.announcements))
        /\ UNCHANGED <<admins, users, batches, clock, inflight>>

\* announcements written and read back
NoticeNext ==
    \/ \E c \in QueryCodes, t \in IdsOf(admins) : CreateBatch(c, "A", "10", t)
    \/ \E b \in BatchIdInputs, h \in AnnouncementBearers, t \in Titles, c \in Contents :
          CreateAnnouncement(b, h, t, c)
    \/ \E b \in BatchIdInputs : GetAnnouncements(b)

NoticeSpec == BatchInit /\ [][NoticeNext]_vars

(* ------------------------------ EnrolRaceSpec -------------------------- *)
(* Two enrolment requests in flight. A handler runs up to the await of its *)
(* save in one step, holding the Batch document it has loaded and pushed   *)
(* to; the save runs in a later step. Mongoose saves a push as a $push of  *)
(* the pushed elements onto the stored array, whatever the array holds by  *)
(* then.                                                                   *)

\* batch.save() after batch.students.push(...ids): $push onto the stored array
PushStudents(batchId, ids) ==
    batches' = [batches EXCEPT ![BatchIndex(batchId)].students = @ \o ids]

\* POST /user/join-batch up to batch.save()
BeginJoinBatch(p, code, bearer) ==
    LET student == FindById(users, Claim(bearer, "userId"))
        batch == ExistingBatch(batches, code)
        Fail(status) == /\ resp' = Respond("joinBatch", status, [batch_code |-> code], NoDoc)
                        /\ UNCHANGED inflight
    IN  /\ inflight[p] = Idle
        /\ IF code = "" \/ bearer.kind = "none" THEN Fail(400)
           ELSE IF ~Verifies(bearer) THEN Fail(401)
           ELSE IF ~Found(student) \/ student.role # "student" THEN Fail(403)
           ELSE IF ~Found(batch) THEN Fail(404)
           ELSE IF student._id \in Range(batch.students) THEN Fail(409)
           ELSE /\ Park(p, [pc |-> "joinSave", route |-> "joinBatch", batch |-> batch._id,
                            pushed |-> <<student._id>>])
                /\ UNCHANGED resp
        /\ UNCHANGED <<admins, users, batches, clock>>

\* POST /admin/batches/:batchId/students up to batch.save()
BeginAddStudents(p, batchId, studentIds) ==
    LET batch == FindById(batches, batchId)
        students == Find(users, LAMBDA u : u._id \in Range(studentIds) /\ u.role = "student")
        Fail(status) == /\ resp' = Respond("addStudents", status, NoDoc, NoDoc)
                        /\ UNCHANGED inflight
    IN  /\ inflight[p] = Idle
        /\ IF Len(studentIds) = 0 THEN Fail(400)
           ELSE IF CastFails(batchId) THEN Fail(500)
           ELSE IF ~Found(batch) THEN Fail(404)
           ELSE IF \E id \in Range(studentIds) : CastFails(id) THEN Fail(500)
           ELSE IF Cardinality(students) # Len(studentIds) THEN Fail(400)
           ELSE /\ Park(p, [pc |-> "addSave", route |-> "addStudents", batch |-> batch._id,
                            pushed |-> NewStudentIds(studentIds, batch)])
                /\ UNCHANGED resp
        /\ UNCHANGED <<admins, users, batches, clock>>

\* batch.save() and the response of either enrolment route
FinishEnrol(p) ==
    LET r == inflight[p]
    IN  /\ r.pc \in {"joinSave", "addSave"}
        /\ PushStudents(r.batch, r.pushed)
        /\ resp' = Respond(r.route, 200, NoDoc, NoDoc)
        /\ Park(p, Idle)
        /\ UNCHANGED <<admins, users, clock>>

\* the batch the racing requests enrol into
SeedBatches == <<NewBatch(<< >>, "CS1", "A", "10", "a1")>>

EnrolRaceInit ==
    /\ admins = SeedAdmins
    /\ users = SeedUsers
    /\ batches = SeedBatches
    /\ clock = 0
    /\ resp = Respond("none", 0, NoToken, NoToken)
    /\ inflight = [p \in Procs |-> Idle]

EnrolRaceNext ==
    \/ \E p \in Procs, c \in BatchCodes, h \in UserBearers : BeginJoinBatch(p, c, h)
    \/ \E p \in Procs, b \in BatchIdInputs, ids \in StudentIdLists : BeginAddStudents(p, b, ids)
    \/ \E p \in Procs : FinishEnrol(p)

EnrolRaceSpec == EnrolRaceInit /\ [][EnrolRaceNext]_vars

(* ================= routes/admin.js: batches and teachers =============== *)
\* GET /admin/batches
GetBatches ==
    /\ resp' = Respond("getBatches", 200, NoDoc, Reverse(batches))
    /\ UNCHANGED <<admins, users, batches, clock, inflight>>

\* GET /admin/batches/:batchId
GetBatch(batchId) ==
    LET req == [batchId |-> batchId]
        batch == FindById(batches, batchId)
    IN  /\ IF CastFails(batchId) THEN resp' = Respond("getBatch", 500, req, NoDoc)
           ELSE IF ~Found(batch) THEN resp' = Respond("getBatch", 404, req, NoDoc)
           ELSE resp' = Respond("getBatch", 200, req, batch)
        /\ UNCHANGED <<admins, users, batches, clock, inflight>>

\* GetTeachers looking the teachers up among the AdminUser documents
GetTeachersAmongAdmins ==
    LET teachers == SelectSeq(admins, LAMBDA a : a.role = "admin")
    IN  /\ resp' = Respond("getTeachers", 200, NoDoc,
                           [teachers |-> [i \in DOMAIN teachers |->
                                             [name |-> teachers[i].name, email |-> teachers[i].email]],
                            count |-> Len(teachers)])
        /\ UNCHANGED <<admins, users, batches, clock, inflight>>

\* GET /admin/teachers
GetTeachers ==
    LET teachers == SelectSeq(users, LAMBDA u : u.role = "teacher")
    IN  /\ resp' = Respond("getTeachers", 200, NoDoc,
                           [teachers |-> [i \in DOMAIN teachers |->
                                             [name |-> teachers[i].name, email |-> teachers[i].email]],
                            count |-> Len(teachers)])
        /\ UNCHANGED <<admins, users, batches, clock, inflight>>

(* ------------------------------- FrameSpec ----------------------------- *)
\* every route of both routers, from the empty store
FramePairs == {<<"s@x.com", "p@x.com">>, <<"t@x.com", "q@x.com">>}
FramePasswords == {"secret1", "secret2"}
FrameCodes == {"cs1", "CS1"}
FrameBearers == {NoToken} \cup UserTokens
FrameIdLists == {<< >>} \cup {<<id>> : id \in IdsOf(users) \cup {MalformedId}}

FrameNext ==
    \/ \E e \in AdminEmails \cup {BadEmail} : AdminRegister("A", e, "secret1", FreshSalt(admins))
    \/ \E e \in AdminEmails, p \in FramePasswords : AdminLogin(e, p)
    \/ \E pair \in FramePairs : UserRegister("A", pair[1], pair[2], "secret1", FreshSalt(users))
    \/ \E pair \in FramePairs, p \in FramePasswords : UserLogin(pair[2], p)
    \/ \E pair \in FramePairs, p \in FramePasswords : StudentLogin(pair[1], p)
    \/ \E pair \in FramePairs, p \in FramePasswords : ParentLogin(pair[2], p)
    \/ \E h \in FrameBearers : UpdateProfile(h, "B", Undefined, "secret1", "secret2")
    \/ \E c \in FrameCodes, t \in IdsOf(admins) \cup {MalformedId} : CreateBatch(c, "A", "10", t)
    \/ \E b \in BatchIdInputs, ids \in FrameIdLists : AddStudents(b, ids)
    \/ \E c \in FrameCodes, h \in FrameBearers : JoinBatch(c, h)
    \/ \E b \in BatchIdInputs, h \in RawBearers(IdsOf(admins)), t \in {"", "t1"} :
          CreateAnnouncement(b, h, t, "c1")
    \/ GetBatches
    \/ \E b \in BatchIdInputs : GetBatch(b)
    \/ GetTeachers
    \/ \E b \in BatchIdInputs : GetAnnouncements(b)
    \/ \E id \in IdsOf(users) : MyBatches(id, NoToken)
    \/ \E h \in FrameBearers : ParentStudentBatches(h)
    \/ \E b \in IdsOf(batches), i \in DOMAIN users :
          StudentBatch(b, users[i]._id, UserToken(users[i]))
    \/ \E b \in IdsOf(batches), i \in DOMAIN users, j \in DOMAIN users :
          ParentBatch(b, users[i]._id, users[j]._id, UserToken(users[i]))

FrameSpec == Init /\ [][FrameNext]_vars

(* =============================== claims ================================ *)
EmailsOf(coll) == {coll[i].email : i \in DOMAIN coll}
LoginRoutes == {"adminLogin", "userLogin", "studentLogin", "parentLogin"}

\* C1: a well-formed registration that reuses an address already stored by its route
\* (the admin's email; a student's email or parentEmail) is answered 409 and leaves the
\* store as it was: no document is created and none is modified.
C1_ReRegistrationConflicts ==
    [][/\ (/\ resp'.route = "adminRegister"
           /\ AdminRegisterValid(resp'.req.name, resp'.req.email, resp'.req.password)
           /\ resp'.req.email \in EmailsOf(admins))
          => (resp'.status = 409 /\ store' = store)
       /\ (/\ resp'.route = "userRegister"
           /\ UserRegisterValid(resp'.req.name, resp'.req.email,
                                resp'.req.parentEmail, resp'.req.password)
           /\ {resp'.req.email, resp'.req.parentEmail} \cap EmailsOf(users) # {})
          => (resp'.status = 409 /\ store' = store)]_vars

\* C1 witness: a registration under a new student address that reuses a stored
\* parent's address was answered 409.
C1_Witness ==
    /\ resp.route = "userRegister"
    /\ resp.status = 409
    /\ resp.req.email \notin EmailsOf(users)
    /\ \E i \in DOMAIN users : users[i].role = "parent" /\ users[i].email = resp.req.parentEmail

\* the accounts that own an address on a login route
OwnersOf(route, email) ==
    CASE route = "adminLogin" -> {admins[i] : i \in {j \in DOMAIN admins : admins[j].email = email}}
      [] route = "userLogin" -> {users[i] : i \in {j \in DOMAIN users : users[j].email = email}}
      [] route = "studentLogin" ->
            {users[i] : i \in {j \in DOMAIN users :
                                  users[j].email = email /\ users[j].role = "student"}}
      [] route = "parentLogin" ->
            {users[i] : i \in {j \in DOMAIN users :
                                  users[j].email = email /\ users[j].role = "parent"}}

\* the identifier claim of a token issued by a login route
SubjectOf(route, token) ==
    IF route = "adminLogin" THEN Claim(token, "adminId") ELSE Claim(token, "userId")

\* C2: on every login route, a login with an existing address and the password of the
\* account that owns it returns a token whose claims carry that account's identifier
\* and role.
C2_TokenNamesTheOwner ==
    resp.route \in LoginRoutes =>
        \A owner \in OwnersOf(resp.route, resp.req.email) :
            owner.password.plain = resp.req.password =>
                /\ resp.status = 200
                /\ SubjectOf(resp.route, resp.out) = owner._id
                /\ Claim(resp.out, "role") = owner.role

\* the documents a login route's lookup matches for an address
LookupOf(route, email) ==
    IF route = "userLogin"
    THEN {users[i] : i \in {j \in DOMAIN users :
                               users[j].email = email \/ users[j].parentEmail = email}}
    ELSE OwnersOf(route, email)

\* a login request that passes its route's validation
WellFormedLogin(route, req) ==
    IF route \in {"adminLogin", "userLogin"}
    THEN req.email \in WellFormedEmails /\ req.password # ""
    ELSE req.email # "" /\ req.password # ""

\* C3: a well-formed login whose address matches a record under the route's lookup
\* but whose password does not verify against it is answered 401, with no token;
\* 404 is answered only when the lookup matches nothing.
C3_WrongPasswordIsUnauthorized ==
    (resp.route \in LoginRoutes /\ WellFormedLogin(resp.route, resp.req)) =>
        LET matched == LookupOf(resp.route, resp.req.email)
        IN  /\ (matched # {} /\ \A d \in matched : d.password.plain # resp.req.password)
                  => (resp.status = 401 /\ resp.out = NoToken)
            /\ resp.status = 404 <=> matched = {}

\* C3 witness: a legacy login with a registered address and another password was answered 401.
C3_Witness ==
    /\ resp.route = "userLogin"
    /\ resp.status = 401
    /\ resp.req.email \in EmailsOf(users)
    /\ resp.req.password = "secret2"

\* C4: every student account in the store has its parent account (the address in
\* parentEmail, role parent, the same password hash), and every parent account its student.
C4_AccountsArePaired ==
    /\ \A i \in DOMAIN users : users[i].role = "student" =>
          \E j \in DOMAIN users : /\ users[j].role = "parent"
                                  /\ users[j].email = users[i].parentEmail
                                  /\ users[j].password = users[i].password
    /\ \A j \in DOMAIN users : users[j].role = "parent" =>
          \E i \in DOMAIN users : /\ users[i].role = "student"
                                  /\ users[i].parentEmail = users[j].email

\* how often an id occurs in a student list
Occurrences(list, id) == Cardinality({k \in DOMAIN list : list[k] = id})

\* C5: a student already in a batch's student list who joins that batch again, with
\* the code in any letter case, is answered 409; the list is unchanged and holds the
\* student once.
C5_JoinTwiceConflicts ==
    [][resp'.route = "joinBatch" =>
        \A h \in UserBearers : \A i \in DOMAIN batches :
            (/\ Verifies(h)
             /\ batches[i].batch_code = ToUpperCase(resp'.req.batch_code)
             /\ Claim(h, "userId") \in Range(batches[i].students)
             /\ JoinBatch(resp'.req.batch_code, h))
            => /\ resp'.status = 409
               /\ batches' = batches
               /\ Occurrences(batches'[i].students, Claim(h, "userId")) = 1]_vars

\* C5 witness: a join spelled in lower case, for a batch stored in upper case that
\* lists a student, was answered 409.
C5_Witness ==
    /\ resp.route = "joinBatch"
    /\ resp.status = 409
    /\ resp.req.batch_code = "cs1"
    /\ \E i \in DOMAIN batches : batches[i].batch_code = "CS1" /\ batches[i].students # << >>

\* C6: a batch creation that passes validation with a teacher_id that resolves to no
\* AdminUser is answered 404 and stores no batch, whether or not the code is taken.
C6_UnknownTeacherIsNotFound ==
    [][resp'.route = "createBatch" =>
        \A c \in BatchCodes, n \in Names, k \in ClassLabels, t \in TeacherIdInputs :
            (/\ BatchValid(c, n, k, t)
             /\ t \notin IdsOf(admins)
             /\ CreateBatch(c, n, k, t))
            => (resp'.status = 404 /\ batches' = batches)]_vars

\* C7: adding students to an existing batch with at least one id that resolves to no
\* User of role student is answered 400 and leaves the batch's student list as it was.
C7_AddStudentsAllOrNothing ==
    [][resp'.route = "addStudents" =>
        \A b \in IdsOf(batches), ids \in StudentIdLists :
            (/\ \E k \in DOMAIN ids :
                   ~\E u \in DOMAIN users : users[u]._id = ids[k] /\ users[u].role = "student"
             /\ AddStudents(b, ids))
            => (resp'.status = 400 /\ batches' = batches)]_vars

\* C8: every stored batch_code is in upper case and no two batches share one; a batch
\* creation that passes validation, names an existing teacher and spells, in any
\* letter case, the code of a stored batch is answered 409 and stores nothing.
C8_BatchCodesUnique ==
    /\ [](/\ \A i \in DOMAIN batches : batches[i].batch_code = ToUpperCase(batches[i].batch_code)
          /\ \A i, j \in DOMAIN batches : batches[i].batch_code = batches[j].batch_code => i = j)
    /\ [][resp'.route = "createBatch" =>
           \A c \in BatchCodes, n \in Names, k \in ClassLabels, t \in IdsOf(admins) :
               (/\ BatchValid(c, n, k, t)
                /\ \E i \in DOMAIN batches : batches[i].batch_code = ToUpperCase(c)
                /\ CreateBatch(c, n, k, t))
               => (resp'.status = 409 /\ batches' = batches)]_vars

\* C8 witness: with two batches stored, a creation was answered 409.
C8_Witness ==
    /\ resp.route = "createBatch"
    /\ resp.status = 409
    /\ Len(batches) = 2

\* C9: a request that passed the pre-check and whose write the unique index rejects
\* is answered with the 409 of the pre-check, and stores nothing.
C9_DuplicateKeyIsConflict ==
    [][\A p \in Procs :
          (/\ inflight[p].pc = "batchCreate"
           /\ inflight'[p] = Idle
           /\ \E i \in DOMAIN batches : batches[i].batch_code = inflight[p].batch_code)
          => (resp'.status = 409 /\ batches' = batches)]_vars

\* C10: an announcement request whose bearer value is no signed token but the raw id
\* of the AdminUser who is the batch's teacher is answered 201, and the announcement
\* is inserted at the front of the batch's announcements.
C10_RawIdBearerAccepted ==
    [][resp'.route = "createAnnouncement" =>
        \A b \in BatchIdInputs, t \in Titles, c \in Contents : \A i \in DOMAIN batches :
            LET h == resp'.req.bearer
            IN  (/\ h.kind = "raw"
                 /\ h.raw \in IdsOf(admins)
                 /\ batches[i]._id = b
                 /\ batches[i].teacher_id = h.raw
                 /\ t # "" /\ c # ""
                 /\ CreateAnnouncement(b, h, t, c))
                => /\ resp'.status = 201
                   /\ batches'[i].announcements =
                         <<[title |-> t, content |-> c, teacher_id |-> h.raw,
                            createdAt |-> clock]>> \o batches[i].announcements]_vars

\* C10 witness: a request carrying a raw id as its bearer value was answered 201 and
\* its announcement is stored.
C10_Witness ==
    /\ resp.route = "createAnnouncement"
    /\ resp.status = 201
    /\ resp.req.bearer.kind = "raw"
    /\ \E i \in DOMAIN batches : /\ batches[i].announcements # << >>
                                 /\ batches[i].announcements[1] = resp.out

QueryRoutes == {"myBatches", "parentStudentBatches", "studentBatch", "parentBatch"}

\* a response of a query route that carries the data of at least one batch
CarriesBatchData(r) ==
    /\ r.route \in QueryRoutes
    /\ r.status = 200
    /\ IF r.route = "parentStudentBatches"
       THEN \E i \in DOMAIN r.out : r.out[i].batches # << >>
       ELSE r.out # << >>

\* C11: a query route answers with batch data only when the bearer token verifies and
\* the caller's identifier in the query string is the subject of that token.
C11_QueriesCheckTheToken ==
    CarriesBatchData(resp) =>
        /\ Verifies(resp.req.bearer)
        /\ resp.req.caller = Claim(resp.req.bearer, "userId")

\* the User the token of a request names
TokenUser(bearer) == FindById(users, Claim(bearer, "userId"))

\* C12: a profile update carrying the valid token of a stored User and a valid body,
\* whose new email no other User holds and whose currentPassword (when a password
\* change is asked for) verifies, is answered 200.
C12_ProfileUpdateSucceeds ==
    (/\ resp.route = "updateProfile"
     /\ Verifies(resp.req.bearer)
     /\ Found(TokenUser(resp.req.bearer))
     /\ ProfileValid(resp.req.email, resp.req.newPassword)
     /\ (Truthy(resp.req.email) =>
            \A i \in DOMAIN users :
                users[i].email = resp.req.email => users[i]._id = TokenUser(resp.req.bearer)._id)
     /\ ((Truthy(resp.req.currentPassword) /\ Truthy(resp.req.newPassword)) =>
            Compare(resp.req.currentPassword, TokenUser(resp.req.bearer).password)))
    => resp.status = 200

\* C13: a request whose body fails its route's validation is answered 400 and writes
\* nothing: a batch creation with an empty or missing batch_code, name, class or
\* teacher_id, and an add-students request with an empty studentIds.
C13_InvalidBodyIsBadRequest ==
    [][/\ resp'.route = "createBatch" =>
            \A c \in BatchCodes, n \in Names, k \in ClassLabels, t \in TeacherIdInputs :
                (~BatchValid(c, n, k, t) /\ CreateBatch(c, n, k, t))
                => (resp'.status = 400 /\ store' = store)
       /\ resp'.route = "addStudents" =>
            \A b \in BatchIdInputs :
                AddStudents(b, << >>) => (resp'.status = 400 /\ store' = store)]_vars

\* C14: an announcement request whose teacher exists but is not the teacher of the
\* batch it names is answered 403 and leaves the batches as they were; so every
\* stored announcement carries the teacher_id of the batch that embeds it.
C14_AnnouncementsAreOwned ==
    /\ [](\A i \in DOMAIN batches : \A k \in DOMAIN batches[i].announcements :
             batches[i].announcements[k].teacher_id = batches[i].teacher_id)
    /\ [][resp'.route = "createAnnouncement" =>
           \A b \in BatchIdInputs, t \in Titles, c \in Contents : \A i \in DOMAIN batches :
               LET h == resp'.req.bearer
               IN  (/\ h.kind = "raw"
                    /\ h.raw \in IdsOf(admins)
                    /\ batches[i]._id = b
                    /\ batches[i].teacher_id # h.raw
                    /\ CreateAnnouncement(b, h, t, c))
                   => (resp'.status = 403 /\ batches' = batches)]_vars

\* C14 witness: with an announcement stored, a request of an existing administrator
\* was answered 403.
C14_Witness ==
    /\ resp.route = "createAnnouncement"
    /\ resp.status = 403
    /\ resp.req.bearer.kind = "raw"
    /\ resp.req.bearer.raw \in IdsOf(admins)
    /\ \E i \in DOMAIN batches : batches[i].announcements # << >>

\* the stored form of a populated announcement sequence
Depopulated(list) == [k \in DOMAIN list |-> [list[k] EXCEPT !.teacher_id = list[k].teacher_id._id]]

\* C15: every batch's announcements are in reverse creation order; a successful
\* creation puts its announcement, the one its response returns, at index 1 before
\* the earlier ones in their order; the list route returns the stored sequence.
C15_AnnouncementsNewestFirst ==
    /\ [](/\ \A i \in DOMAIN batches : \A k, l \in DOMAIN batches[i].announcements :
                k < l => batches[i].announcements[k].createdAt
                            > batches[i].announcements[l].createdAt
          /\ (resp.route = "getAnnouncements" /\ resp.status = 200) =>
                \E i \in DOMAIN batches :
                    /\ batches[i]._id = resp.req.batchId
                    /\ Depopulated(resp.out) = batches[i].announcements)
    /\ [][(resp'.route = "createAnnouncement" /\ resp'.status = 201) =>
            \E i \in DOMAIN batches :
                /\ batches'[i].announcements = <<resp'.out>> \o batches[i].announcements
                /\ resp'.out.createdAt = clock
                /\ \A j \in DOMAIN batches : j # i => batches'[j] = batches[j]]_vars

\* C15 witness: the list route returned two announcements of one batch.
C15_Witness ==
    /\ resp.route = "getAnnouncements"
    /\ resp.status = 200
    /\ Len(resp.out) = 2
    /\ resp.out[1].createdAt > resp.out[2].createdAt

\* a sequence without a repeated element
NoDuplicates(list) == \A k, l \in DOMAIN list : list[k] = list[l] => k = l

C17_RacingEnrolmentsListOnce ==
    (\A p \in Procs : inflight[p] = Idle) =>
        \A i \in DOMAIN batches : NoDuplicates(batches[i].students)

\* the routes that only read: the four logins and every GET route
ReadOnlyRoutes ==
    LoginRoutes \cup QueryRoutes \cup {"getBatches", "getBatch", "getTeachers", "getAnnouncements"}

\* every document of a collection is still there, under its _id, after a step
Kept(old, new) ==
    /\ Len(new) >= Len(old)
    /\ \A i \in DOMAIN old : new[i]._id = old[i]._id

\* C18: no request deletes a User, an AdminUser or a Batch; a batch keeps its
\* batch_code and teacher_id, its student list keeps its elements and its
\* announcements keep theirs; a login or a GET leaves the whole store unchanged.
C18_StoreOnlyGrows ==
    [][/\ Kept(admins, admins')
       /\ Kept(users, users')
       /\ Kept(batches, batches')
       /\ \A i \in DOMAIN batches :
             LET old == batches[i]
                 new == batches'[i]
             IN  /\ new.batch_code = old.batch_code
                 /\ new.teacher_id = old.teacher_id
                 /\ Len(new.students) >= Len(old.students)
                 /\ SubSeq(new.students, 1, Len(old.students)) = old.students
                 /\ Len(new.announcements) >= Len(old.announcements)
                 /\ SubSeq(new.announcements,
                           Len(new.announcements) - Len(old.announcements) + 1,
                           Len(new.announcements)) = old.announcements
       /\ resp'.route \in ReadOnlyRoutes => store' = store]_vars

\* C18 witness: a GET was answered over a store that holds a batch with two
\* students and two announcements.
C18_Witness ==
    /\ resp.route = "getBatch"
    /\ resp.status = 200
    /\ Len(resp.out.students) = 2
    /\ Len(resp.out.announcements) = 2

\* C19: no stored User has the role teacher, and the teachers route answers 200 with
\* an empty list and count 0, whatever the AdminUser collection holds.
C19_TeachersListIsEmpty ==
    /\ \A i \in DOMAIN users : users[i].role \in {"student", "parent"}
    /\ resp.route = "getTeachers" =>
          /\ resp.status = 200
          /\ resp.out.teachers = << >>
          /\ resp.out.count = 0

\* C19 witness: the teachers route was answered with two administrators and two
\* student/parent pairs registered.
C19_Witness ==
    /\ resp.route = "getTeachers"
    /\ Len(admins) = 2
    /\ Len(users) = 4
====
